---- MODULE Spec2Model ----
(***************************************************************************)
(* conway-errors (src/index.ts, lines 1-240): createError builds a factory *)
(* of root contexts; a context spawns subcontexts and features; a feature  *)
(* handle constructs error values; an error value can be thrown or handed  *)
(* to the report sink with emit.                                           *)
(*                                                                         *)
(* JavaScript values are records tagged by the field t.  A JavaScript      *)
(* object is [t |-> "object", props |-> f] with f a function from its own  *)
(* keys to values.  JavaScript strings are TLA+ strings, concatenated      *)
(* with \o.                                                                *)
(***************************************************************************)
EXTENDS Integers, Sequences, FiniteSets, TLC

\* factory: the root builder createError returned; ctx: the context node
\* the caller holds (it moves down with subcontext); feature: a feature
\* handle; err: a constructed error value; held: a factory, a node, a
\* feature handle and an error value kept in other variables, each usable
\* like the current one; caught: the value a catch clause
\* received; sinkLog: the calls of the configured handleEmit; console: the
\* values written by console.error; emitCalls: the calls of emit;
\* postfixCalls: the calls of a createMessagePostfix; raised: an operation
\* of the library raised.
VARIABLES factory, ctx, feature, err, held, caught, sinkLog, console,
          emitCalls, postfixCalls, raised

vars == <<factory, ctx, feature, err, held, caught, sinkLog, console,
          emitCalls, postfixCalls, raised>>

(***************************************************************************)
(* Bounds of the exploration.                                              *)
(***************************************************************************)
MaxDepth == 2

MaxEmits == 2

(***************************************************************************)
(* JavaScript values.                                                      *)
(***************************************************************************)
Undefined == [t |-> "undefined"]

Null == [t |-> "null"]

Str(s) == [t |-> "string", v |-> s]

Num(n) == [t |-> "number", v |-> n]

Bool(b) == [t |-> "boolean", v |-> b]

Fn(name) == [t |-> "function", name |-> name]

NoProps == [k \in {} |-> Undefined]

Obj(p) == [t |-> "object", props |-> p]

EmptyObj == Obj(NoProps)

Arr(items) == [t |-> "array", items |-> items]

\* The built-in class Error, and new Error(m).
ErrorClass == [t |-> "class", name |-> "Error", extends |-> "Object"]

NativeError(m) == [t |-> "object", props |-> [message |-> Str(m)], class |-> ErrorClass]

\* The own enumerable properties an object spread copies: none for
\* undefined, null and the other non-objects of the model.
OwnProps(v) == IF v.t = "object" THEN v.props ELSE NoProps

\* o.k on a value that is neither undefined nor null.
Get(o, k) == IF k \in DOMAIN OwnProps(o) THEN OwnProps(o)[k] ELSE Undefined

\* o?.k
OptGet(o, k) == IF o \in {Undefined, Null} THEN Undefined ELSE Get(o, k)

\* a ?? b
Nullish(a, b) == IF a \in {Undefined, Null} THEN b ELSE a

\* A parameter default (p = d) applies to undefined only.
Default(v, d) == IF v = Undefined THEN d ELSE v

\* The truthiness test of `&&` and `? :`.
ToBoolean(v) ==
  CASE v.t = "undefined" -> FALSE
    [] v.t = "null" -> FALSE
    [] v.t = "string" -> v.v # ""
    [] v.t = "number" -> v.v # 0
    [] v.t = "boolean" -> v.v
    [] OTHER -> TRUE

\* { ...a, ...b }: the keys of both, b's value where both have the key.
Spread2(a, b) ==
  Obj([k \in DOMAIN OwnProps(a) \cup DOMAIN OwnProps(b) |->
         IF k \in DOMAIN OwnProps(b) THEN OwnProps(b)[k] ELSE OwnProps(a)[k]])

\* { ...a, ...b, ...c }
Spread3(a, b, c) == Spread2(Spread2(a, b), c)

(***************************************************************************)
(* The library: src/index.ts, lines 14-240.                                *)
(***************************************************************************)

\* The number of the root builder call being made: the first, or the one
\* after the call that made the root context kept aside.
RootCall == IF held.ctx = Undefined THEN 1 ELSE held.ctx.env.call + 1

\* createErrorClass with its two arguments taken in the other order.
createErrorClassSwapped(name, rootContext) ==
  [t |-> "class", name |-> rootContext, rootContext |-> name, extends |-> "ConwayError",
   id |-> RootCall]

\* The class if the classes of the first root context were kept and used
\* for every later root context of the factory.
createErrorClassOfFirstRoot(name, rootContext) ==
  [t |-> "class", name |-> name,
   rootContext |-> IF held.ctx = Undefined THEN rootContext ELSE held.ctx.env.contextName,
   extends |-> "ConwayError", id |-> 1]

\* class extends ConwayError, closed over (name, rootContext).  The class
\* expression makes a new class object each time it is evaluated: id tells
\* the classes of one root builder call from those of another.
createErrorClass(name, rootContext) ==
  [t |-> "class", name |-> name, rootContext |-> rootContext, extends |-> "ConwayError",
   id |-> RootCall]

\* typeof v
TypeOf(v) ==
  CASE v.t \in {"undefined", "string", "number", "boolean", "function"} -> v.t
    [] v.t = "class" -> "function"
    [] OTHER -> "object"

\* The classes on the prototype chain of v: none for a primitive; for an
\* object its class if it was made with new, then what that class extends
\* (class ConwayError extends Error), then Object.
PrototypeChain(v) ==
  IF v.t \notin {"object", "array"} THEN {}
  ELSE IF "class" \notin DOMAIN v THEN {"Object"}
  ELSE IF v.class.extends = "ConwayError" THEN {"ConwayError", "Error", "Object"}
  ELSE {v.class.name, "Object"}

\* The guard with the typeof test alone.
isConwayErrorTypeofOnly(error) == TypeOf(error) = "object"

\* typeof error === "object" && error instanceof ConwayError
isConwayError(error) == TypeOf(error) = "object" /\ "ConwayError" \in PrototypeChain(error)

\* ConwayError with rootContext set from the full path.
ConwayErrorRootIsPath(cls, contextsChunk, message, emit, originalError, extendedParams) ==
  [t |-> "object", class |-> cls,
   props |-> [name |-> Str(cls.name),
              message |-> Str(message),
              rootContext |-> Str(contextsChunk),
              contextsChunk |-> Str(contextsChunk),
              originalError |-> originalError,
              emit |-> emit,
              extendedParams |-> extendedParams,
              feature |-> Str("")]]

\* ConwayError with its last two arguments taken in the other order.
ConwayErrorSwapped(cls, contextsChunk, message, emit, originalError, extendedParams) ==
  [t |-> "object", class |-> cls,
   props |-> [name |-> Str(cls.name),
              message |-> Str(message),
              rootContext |-> Str(cls.rootContext),
              contextsChunk |-> Str(contextsChunk),
              originalError |-> extendedParams,
              emit |-> emit,
              extendedParams |-> originalError,
              feature |-> Str("")]]

\* new cls(contextsChunk, message, emit, originalError, extendedParams):
\* the subclass constructor passes its closed-over name and rootContext to
\* ConwayError's constructor, which assigns the fields; feature starts "".
ConwayError(cls, contextsChunk, message, emit, originalError, extendedParams) ==
  [t |-> "object", class |-> cls,
   props |-> [name |-> Str(cls.name),
              message |-> Str(message),
              rootContext |-> Str(cls.rootContext),
              contextsChunk |-> Str(contextsChunk),
              originalError |-> originalError,
              emit |-> emit,
              extendedParams |-> extendedParams,
              feature |-> Str("")]]

\* The message if it carried a mark once an emit call was made.
createContextedMessageMarked(contextPath, featureName, message) ==
  contextPath \o "/" \o featureName \o ": " \o message
    \o (IF emitCalls = 0 THEN "" ELSE " (reported)")

\* createContextedMessage with the feature name before the path.
createContextedMessageFeatureFirst(contextPath, featureName, message) ==
  featureName \o "/" \o contextPath \o ": " \o message

createContextedMessage(contextPath, featureName, message) ==
  contextPath \o "/" \o featureName \o ": " \o message

defaultHandleEmit == Fn("defaultHandleEmit")

\* handleEmit: () => { throw new Error("sink failed") }
throwingHandleEmit == Fn("throwingHandleEmit")

\* handleEmit: (err, extendedParams) => { delete extendedParams.a;
\* extendedParams.c = 9; extendedParams.z = 9 }
mutatingHandleEmit == Fn("mutatingHandleEmit")

defaultErrorOptions ==
  Obj([handleEmit |-> defaultHandleEmit, extendedParams |-> EmptyObj])

\* createError(errorTypes, options): the closure of the returned root
\* builder.  calls is the history of the calls that led to a value.
createError(errorTypes, options) ==
  [errorTypes |-> errorTypes,
   _options |-> Spread2(defaultErrorOptions, options),
   initialExtendedParams |-> Nullish(OptGet(options, "extendedParams"), EmptyObj),
   calls |-> <<[op |-> "createError", errorTypes |-> errorTypes, options |-> options]>>]

\* The assignment if a key that is already in acc kept its value.
assignKeepFirst(acc, errorType, entry) ==
  [k \in DOMAIN acc \cup {errorType} |-> IF k \in DOMAIN acc THEN acc[k] ELSE entry]

\* acc[errorType] = entry
assign(acc, errorType, entry) ==
  [k \in DOMAIN acc \cup {errorType} |-> IF k = errorType THEN entry ELSE acc[k]]

\* errorTypes.reduce((acc, {errorType, createMessagePostfix}) => ..., {}):
\* each declaration assigns acc[errorType], a later one replacing an earlier.
RECURSIVE reduceErrorTypes(_, _, _)
reduceErrorTypes(items, contextName, acc) ==
  IF items = <<>> THEN acc
  ELSE LET errorType == Get(Head(items), "errorType").v
           entry == Obj([errorClass |-> createErrorClass(errorType, contextName),
                         createMessagePostfix |-> Get(Head(items), "createMessagePostfix")])
       IN reduceErrorTypes(Tail(items), contextName, assign(acc, errorType, entry))

\* errorsMap is an ordinary object: a key it does not own is looked up on
\* Object.prototype, whose members are functions without an errorClass or
\* a createMessagePostfix property.
ObjectPrototypeKeys ==
  {"constructor", "toString", "toLocaleString", "valueOf", "hasOwnProperty",
   "isPrototypeOf", "propertyIsEnumerable"}

\* errorsMap[errorType]
errorsMapLookup(errorsMap, errorType) ==
  IF errorType \in DOMAIN errorsMap THEN errorsMap[errorType]
  ELSE IF errorType \in ObjectPrototypeKeys THEN Fn(errorType)
  ELSE Undefined

\* The root builder createError returns, applied to (contextName,
\* extendedParams): the closure shared by the nodes below this root, and
\* the root node _createErrorContext(contextName).
rootEnv(f, contextName, extendedParams) ==
  [contextName |-> contextName,
   outerExtendedParams |-> Spread2(f.initialExtendedParams, Default(extendedParams, EmptyObj)),
   errorsMap |-> IF f.errorTypes.t = "array"
                 THEN reduceErrorTypes(f.errorTypes.items, contextName, NoProps)
                 ELSE NoProps,
   UnknownError |-> createErrorClass("UnknownError", contextName),
   _options |-> f._options,
   call |-> RootCall]

_createErrorContext(env, _contextName, contextExtendedParams, calls) ==
  [env |-> env,
   _contextName |-> _contextName,
   contextExtendedParams |-> Default(contextExtendedParams, env.outerExtendedParams),
   calls |-> calls]

createErrorContext(f, contextName, extendedParams) ==
  _createErrorContext(rootEnv(f, contextName, extendedParams), contextName, Undefined,
                      Append(f.calls, [op |-> "context", name |-> contextName,
                                       extendedParams |-> extendedParams]))

\* subcontext if an empty name added no segment to the path.
_createSubcontextSkipEmpty(node, childContextName, extendedParams) ==
  _createErrorContext(node.env,
                      IF childContextName = "" THEN node._contextName
                      ELSE node._contextName \o "/" \o childContextName,
                      Spread2(node.contextExtendedParams, Default(extendedParams, EmptyObj)),
                      Append(node.calls, [op |-> "subcontext", name |-> childContextName,
                                          extendedParams |-> extendedParams]))

\* subcontext if the path and the metadata were one mutable record that
\* every subcontext call extends in place.
_createSubcontextInPlace(node, childContextName, extendedParams) ==
  LET last == IF ctx = Undefined THEN node ELSE ctx
  IN _createErrorContext(node.env, last._contextName \o "/" \o childContextName,
                         Spread2(last.contextExtendedParams,
                                 Default(extendedParams, EmptyObj)),
                         Append(node.calls, [op |-> "subcontext", name |-> childContextName,
                                             extendedParams |-> extendedParams]))

\* node.subcontext(childContextName, extendedParams)
_createSubcontext(node, childContextName, extendedParams) ==
  LET subErrorContext == Spread2(node.contextExtendedParams,
                                 Default(extendedParams, EmptyObj))
  IN _createErrorContext(node.env, node._contextName \o "/" \o childContextName,
                         subErrorContext,
                         Append(node.calls, [op |-> "subcontext", name |-> childContextName,
                                             extendedParams |-> extendedParams]))

_createErrorFeature(env, featureName, contextName, featureContextExtendedParams, calls) ==
  [env |-> env,
   featureName |-> featureName,
   contextName |-> contextName,
   featureContextExtendedParams |-> Default(featureContextExtendedParams, EmptyObj),
   calls |-> calls]

\* node.feature(childFeatureName, extendedParams)
createFeature(node, childFeatureName, extendedParams) ==
  LET featureErrorContext == Spread2(node.contextExtendedParams,
                                     Default(extendedParams, EmptyObj))
  IN _createErrorFeature(node.env, childFeatureName, node._contextName,
                         featureErrorContext,
                         Append(node.calls, [op |-> "feature", name |-> childFeatureName,
                                             extendedParams |-> extendedParams]))

\* The suffix builders the tests declare: (originalError) => " >>> " +
\* originalError.message and () => " some additional info".  A property
\* read on a primitive gives undefined, which + renders as "undefined".
postfixOriginalMessage == Fn("postfixOriginalMessage")

postfixAdditionalInfo == Fn("postfixAdditionalInfo")

applyPostfix(fn, originalError) ==
  IF fn = postfixOriginalMessage
  THEN " >>> " \o (IF Get(originalError, "message").t = "string"
                   THEN Get(originalError, "message").v ELSE "undefined")
  ELSE " some additional info"

\* The suffix decided by the builder alone, whatever the cause.
postfixAppliesBuilderOnly(options, errorMapItem) ==
  ToBoolean(OptGet(errorMapItem, "createMessagePostfix"))

\* options?.originalError && errorMapItem?.createMessagePostfix
postfixApplies(options, errorMapItem) ==
  /\ ToBoolean(OptGet(options, "originalError"))
  /\ ToBoolean(OptGet(errorMapItem, "createMessagePostfix"))

\* errorMapItem?.errorClass, without the fallback.
errorClassOfNoFallback(errorMapItem, UnknownError) ==
  OptGet(errorMapItem, "errorClass")

\* errorMapItem.errorClass ?? UnknownError: a property read on undefined
\* raises a TypeError.
errorClassOfNoOptionalChaining(errorMapItem, UnknownError) ==
  IF errorMapItem \in {Undefined, Null} THEN [t |-> "TypeError"]
  ELSE Nullish(Get(errorMapItem, "errorClass"), UnknownError)

\* errorMapItem?.errorClass ?? UnknownError
errorClassOf(errorMapItem, UnknownError) ==
  Nullish(OptGet(errorMapItem, "errorClass"), UnknownError)

\* The feature's merged metadata stored on the error.
constructionParamsMerged(f, options) ==
  Spread2(f.featureContextExtendedParams, OptGet(options, "extendedParams"))

\* options?.extendedParams, the last argument of the constructor call.
constructionParams(f, options) == OptGet(options, "extendedParams")

\* The number of the feature handle invocation being made: the first, or
\* the one after the invocation that made the error kept aside.
ErrorCall == IF held.err = Undefined THEN 1 ELSE held.err.id + 1

\* The feature handle applied to (errorType, message, options).  `new` on a
\* value that is no class raises a TypeError: raised, and no error value.
\* `new` makes a new object each time: id tells it from every other error,
\* and the emit closure refers to it as error.
createNewErrorObject(f, errorType, message, options) ==
  LET errorMapItem == errorsMapLookup(f.env.errorsMap, errorType)
      applies == postfixApplies(options, errorMapItem)
      messagePostfix ==
        IF applies
        THEN applyPostfix(Get(errorMapItem, "createMessagePostfix"),
                          OptGet(options, "originalError"))
        ELSE ""
      emit == [t |-> "function", name |-> "emit",
               featureContextExtendedParams |-> f.featureContextExtendedParams,
               options |-> options,
               _options |-> f.env._options,
               error |-> ErrorCall]
      cls == errorClassOf(errorMapItem, f.env.UnknownError)
      error == ConwayError(cls, f.contextName,
                           createContextedMessage(f.contextName, f.featureName,
                                                  message \o messagePostfix),
                           emit, OptGet(options, "originalError"),
                           constructionParams(f, options))
  IN [postfixCalled |-> applies,
      raised |-> cls.t # "class",
      error |-> IF cls.t # "class" THEN Undefined
                ELSE [t |-> error.t, class |-> error.class,
                      props |-> [error.props EXCEPT !.feature = Str(f.featureName)],
                      id |-> ErrorCall],
      call |-> [op |-> "error", errorType |-> errorType, message |-> message,
                options |-> options]]

\* The merge if the options of a feature handle invocation were kept in
\* one place that every invocation overwrites.
emitMetadataOfLastCall(e, extendedParams) ==
  LET last == IF err = Undefined THEN e ELSE err
  IN Spread3(Get(e, "emit").featureContextExtendedParams,
             OptGet(Get(last, "emit").options, "extendedParams"),
             Default(extendedParams, EmptyObj))

\* The merge of emit with the feature's metadata applied last.
emitMetadataFeatureLast(e, extendedParams) ==
  Spread3(Default(extendedParams, EmptyObj),
          OptGet(Get(e, "emit").options, "extendedParams"),
          Get(e, "emit").featureContextExtendedParams)

\* error.emit(extendedParams): the merged metadata and the handler, if any.
emitMetadata(e, extendedParams) ==
  Spread3(Get(e, "emit").featureContextExtendedParams,
          OptGet(Get(e, "emit").options, "extendedParams"),
          Default(extendedParams, EmptyObj))

\* The object emit would merge into, if it merged the layers into the
\* metadata of the invocation (Object.assign(options.extendedParams, ...)).
mergeTargetOptions(e) == "options.extendedParams"

\* The object emit would merge into, if it merged the layers into the
\* metadata of the feature (Object.assign(featureContextExtendedParams, ...)).
mergeTargetFeature(e) == "featureContextExtendedParams"

\* const _extendedParams = { ... }: the object the layers are merged into.
\* An object literal makes a new object at every call of emit.
mergeTarget(e) == "new"

\* The handler if _options were one module-level object that every
\* createError call overwrites.
emitHandlerOfLastFactory(e) ==
  IF factory = Undefined THEN Get(Get(e, "emit")._options, "handleEmit")
  ELSE Get(factory._options, "handleEmit")

\* The handler if emit called defaultHandleEmit whatever was configured.
emitHandlerDefault(e) == defaultHandleEmit

emitHandler(e) == Get(Get(e, "emit")._options, "handleEmit")

(***************************************************************************)
(* The operations of a caller, their arguments drawn from the given sets.  *)
(***************************************************************************)
\* No handle kept aside.
NoHandles ==
  [factory |-> Undefined, ctx |-> Undefined, feature |-> Undefined, err |-> Undefined]

Init ==
  /\ factory = Undefined
  /\ ctx = Undefined
  /\ feature = Undefined
  /\ err = Undefined
  /\ held = NoHandles
  /\ caught = Undefined
  /\ sinkLog = <<>>
  /\ console = <<>>
  /\ emitCalls = 0
  /\ postfixCalls = 0
  /\ raised = FALSE

\* The handles of one sort the caller can use: the current one and the one
\* kept aside.
Handles(current, kept) == {current, kept} \ {Undefined}

\* const createErrorContext = createError(errorTypes, options)
CreateError(errorTypesIn, optionsIn) ==
  /\ factory = Undefined
  /\ \E errorTypes \in errorTypesIn, options \in optionsIn :
       factory' = createError(errorTypes, options)
  /\ UNCHANGED <<ctx, feature, err, held, caught, sinkLog, console, emitCalls,
                 postfixCalls, raised>>

\* const context = createErrorContext(contextName, extendedParams)
CreateErrorContext(namesIn, paramsIn) ==
  /\ ctx = Undefined
  /\ \E createErrorContext_ \in Handles(factory, held.factory),
        contextName \in namesIn, extendedParams \in paramsIn :
       ctx' = createErrorContext(createErrorContext_, contextName, extendedParams)
  /\ UNCHANGED <<factory, feature, err, held, caught, sinkLog, console, emitCalls,
                 postfixCalls, raised>>

\* The subcontexts between the root node and a node.
Depth(node) == Cardinality({i \in DOMAIN node.calls : node.calls[i].op = "subcontext"})

\* context = parent.subcontext(childContextName, extendedParams)
Subcontext(namesIn, paramsIn) ==
  /\ \E parent \in Handles(ctx, held.ctx),
        childContextName \in namesIn, extendedParams \in paramsIn :
       /\ Depth(parent) < MaxDepth
       /\ ctx' = _createSubcontext(parent, childContextName, extendedParams)
  /\ UNCHANGED <<factory, feature, err, held, caught, sinkLog, console, emitCalls,
                 postfixCalls, raised>>

\* const featureError = context.feature(childFeatureName, extendedParams)
Feature(namesIn, paramsIn) ==
  /\ feature = Undefined
  /\ \E context \in Handles(ctx, held.ctx),
        childFeatureName \in namesIn, extendedParams \in paramsIn :
       feature' = createFeature(context, childFeatureName, extendedParams)
  /\ UNCHANGED <<factory, ctx, err, held, caught, sinkLog, console, emitCalls,
                 postfixCalls, raised>>

\* const error = featureError(errorType, message, options)
CreateNewErrorObject(kindsIn, messagesIn, optionsIn) ==
  /\ err = Undefined
  /\ ~raised
  /\ \E featureError \in Handles(feature, held.feature),
        errorType \in kindsIn, message \in messagesIn, options \in optionsIn :
       LET r == createNewErrorObject(featureError, errorType, message, options)
       IN /\ raised' = r.raised
          /\ postfixCalls' = postfixCalls + (IF r.postfixCalled THEN 1 ELSE 0)
          /\ err' = IF r.raised THEN Undefined
                    ELSE [t |-> r.error.t, class |-> r.error.class,
                          props |-> r.error.props,
                          id |-> r.error.id,
                          calls |-> Append(featureError.calls, r.call)]
  /\ UNCHANGED <<factory, ctx, feature, held, caught, sinkLog, console, emitCalls>>

\* try { throw error } catch (e) { caught = e }
Throw ==
  /\ err # Undefined
  /\ caught = Undefined
  /\ caught' = err
  /\ UNCHANGED <<factory, ctx, feature, err, held, sinkLog, console, emitCalls,
                 postfixCalls, raised>>

\* The error value the const error of an emit closure refers to.
ErrorOf(emit) == CHOOSE e \in Handles(err, held.err) : e.id = emit.error

\* The first argument emit gives the handler, if it were this.
emitTargetThis(emit, thisArg) == thisArg

\* The first argument emit gives the handler: the const error of its
\* closure, whatever this is.
emitTarget(emit, thisArg) == ErrorOf(emit)

\* The content of the mapping m a handler was given, when the handler
\* returns.
sinkWrites(handleEmit, m) ==
  IF handleEmit = mutatingHandleEmit
  THEN Obj([k \in (DOMAIN m.props \ {"a"}) \cup {"c", "z"} |->
              IF k \in {"c", "z"} THEN Num(9) ELSE m.props[k]])
  ELSE m

\* The calls that made the feature handle an error came from.
FeatureCalls(e) == SubSeq(e.calls, 1, Len(e.calls) - 1)

\* A value x the caller holds (an error or a feature handle), once the
\* object target of the emit closure of error has the given content: the
\* error refers to options.extendedParams as its extendedParams, and the
\* feature handle and the emit closures of its errors refer to
\* featureContextExtendedParams.  A new object is referred to by nothing.
Stored(x, error, target, content) ==
  IF x = Undefined THEN x
  ELSE IF "props" \in DOMAIN x
  THEN IF /\ target = "options.extendedParams"
          /\ x.id = error.id
          /\ OptGet(Get(x, "emit").options, "extendedParams").t = "object"
       THEN [x EXCEPT !.props.extendedParams = content,
                      !.props.emit.options.props.extendedParams = content]
       ELSE IF /\ target = "featureContextExtendedParams"
               /\ FeatureCalls(x) = FeatureCalls(error)
       THEN [x EXCEPT !.props.emit.featureContextExtendedParams = content]
       ELSE x
  ELSE IF target = "featureContextExtendedParams" /\ x.calls = FeatureCalls(error)
  THEN [x EXCEPT !.featureContextExtendedParams = content]
  ELSE x

\* A call of the emit of error, as a method of it or detached from it:
\* _options.handleEmit?.(error, _extendedParams).  defaultHandleEmit writes
\* the error with console.error; what the handler throws reaches the caller
\* of emit.  A sink call is logged with the handler called, its two
\* arguments, the argument of emit, the error whose emit was called, and
\* whether emit was detached and whether that error had been caught.  The
\* merge and the handler write to the object the layers are merged into.
EmitCall(error, detached, extendedParams) ==
  LET handleEmit == emitHandler(error)
      _extendedParams == emitMetadata(error, extendedParams)
      first == emitTarget(Get(error, "emit"), IF detached THEN Undefined ELSE error)
      content == IF handleEmit \in {Undefined, Null} THEN _extendedParams
                 ELSE sinkWrites(handleEmit, _extendedParams)
      after(x) == Stored(x, error, mergeTarget(error), content)
  IN /\ err' = after(err)
     /\ feature' = after(feature)
     /\ caught' = after(caught)
     /\ held' = [held EXCEPT !.err = after(@), !.feature = after(@)]
     /\ IF handleEmit \in {Undefined, Null}
        THEN UNCHANGED <<sinkLog, console, raised>>
        ELSE /\ sinkLog' = Append(sinkLog, [handleEmit |-> handleEmit,
                                            error |-> first,
                                            extendedParams |-> _extendedParams,
                                            emitArg |-> extendedParams,
                                            emitOf |-> error.id,
                                            detached |-> detached,
                                            thrown |-> (caught = error)])
             /\ console' = IF handleEmit = defaultHandleEmit
                           THEN Append(console, first) ELSE console
             /\ raised' = (raised \/ handleEmit = throwingHandleEmit)

\* error.emit(extendedParams)
Emit(paramsIn) ==
  /\ emitCalls < MaxEmits
  /\ emitCalls' = emitCalls + 1
  /\ \E error \in Handles(err, held.err), extendedParams \in paramsIn :
       EmitCall(error, FALSE, extendedParams)
  /\ UNCHANGED <<factory, ctx, postfixCalls>>

\* const { emit } = error; emit(extendedParams)
EmitDetached(paramsIn) ==
  /\ emitCalls < MaxEmits
  /\ emitCalls' = emitCalls + 1
  /\ \E error \in Handles(err, held.err), extendedParams \in paramsIn :
       EmitCall(error, TRUE, extendedParams)
  /\ UNCHANGED <<factory, ctx, postfixCalls>>

\* The caller changes the array it passed to createError, after a root
\* context was made and kept aside: errorTypes.length = 0;
\* errorTypes.push(...).  The closure of the root builder refers to that
\* array; the factory kept aside that equals the current one is the same
\* closure.  calls keeps the array as it was passed.
CallerWritesKinds(errorTypesIn) ==
  /\ factory # Undefined
  /\ held.ctx # Undefined
  /\ factory.errorTypes.t = "array"
  /\ factory.errorTypes = factory.calls[1].errorTypes
  /\ \E errorTypes \in errorTypesIn :
       /\ errorTypes # factory.errorTypes
       /\ factory' = [factory EXCEPT !.errorTypes = errorTypes]
       /\ held' = [held EXCEPT !.factory =
                     IF @ = factory THEN [@ EXCEPT !.errorTypes = errorTypes] ELSE @]
  /\ UNCHANGED <<ctx, feature, err, caught, sinkLog, console, emitCalls, postfixCalls,
                 raised>>

\* A value x the caller holds, once the mapping passed to createError as
\* options.extendedParams has content m: initialExtendedParams is that
\* mapping, and _options, a spread copy of options that the closures of the
\* factory's contexts, features and emits share, refers to it too.
OptionsMetadataWritten(x, f, m) ==
  IF x = Undefined \/ x.calls[1] # f.calls[1] THEN x
  ELSE IF "initialExtendedParams" \in DOMAIN x
  THEN [x EXCEPT !.initialExtendedParams = m, !._options.props.extendedParams = m]
  ELSE IF "props" \in DOMAIN x
  THEN [x EXCEPT !.props.emit._options.props.extendedParams = m]
  ELSE [x EXCEPT !.env._options.props.extendedParams = m]

\* The caller adds and overwrites keys of the mapping it passed to
\* createError as options.extendedParams, after a root context was made and
\* kept aside.  calls keeps the mapping as it was passed.
CallerWritesOptionsMetadata(writesIn) ==
  /\ factory # Undefined
  /\ held.ctx # Undefined
  /\ OptGet(factory.calls[1].options, "extendedParams").t = "object"
  /\ factory.initialExtendedParams = Get(factory.calls[1].options, "extendedParams")
  /\ \E writes \in writesIn :
       LET m == Spread2(factory.initialExtendedParams, writes)
           after(x) == OptionsMetadataWritten(x, factory, m)
       IN /\ m # factory.initialExtendedParams
          /\ factory' = after(factory)
          /\ ctx' = after(ctx)
          /\ feature' = after(feature)
          /\ err' = after(err)
          /\ caught' = after(caught)
          /\ held' = [slot \in DOMAIN held |-> after(held[slot])]
  /\ UNCHANGED <<sinkLog, console, emitCalls, postfixCalls, raised>>

\* An error value x the caller holds, once the mapping passed to the
\* feature handle as options.extendedParams in the invocation that made
\* error has content m: the extendedParams of the error is that mapping,
\* and its emit closure reads options.extendedParams at every call.
InvocationMetadataWritten(x, error, m) ==
  IF x = Undefined \/ x.id # error.id THEN x
  ELSE [x EXCEPT !.props.extendedParams = m,
                 !.props.emit.options.props.extendedParams = m]

\* The caller adds and overwrites keys of the mapping it passed to a
\* feature handle as options.extendedParams.
CallerWritesInvocationMetadata(writesIn) ==
  /\ \E error \in Handles(err, held.err), writes \in writesIn :
       LET passed == OptGet(error.calls[Len(error.calls)].options, "extendedParams")
           m == Spread2(passed, writes)
           after(x) == InvocationMetadataWritten(x, error, m)
       IN /\ passed.t = "object"
          /\ Get(error, "extendedParams") = passed
          /\ m # passed
          /\ err' = after(err)
          /\ caught' = after(caught)
          /\ held' = [held EXCEPT !.err = after(@)]
  /\ UNCHANGED <<factory, ctx, feature, sinkLog, console, emitCalls, postfixCalls,
                 raised>>

\* The handles the caller has now.
Current == [factory |-> factory, ctx |-> ctx, feature |-> feature, err |-> err]

\* The handles a caller replaces when it goes on from a level.
Replaced(level) ==
  CASE level = "factory" -> {"factory", "ctx", "feature", "err"}
    [] level = "ctx" -> {"ctx", "feature", "err"}
    [] level = "feature" -> {"feature", "err"}
    [] level = "err" -> {"err"}
    [] OTHER -> {}

\* The caller keeps the handles it has in other variables (the first one
\* kept of each sort stays) and goes on from the given level: "factory"
\* starts over with a new createError, "ctx" with a new root context,
\* "feature" with a new feature, "err" with a new error value, "none" goes
\* on with the same handles.  A handle is replaced only when there is one
\* and it is kept, so no handle is dropped.
Hold(levelsIn) ==
  /\ held' = [slot \in DOMAIN held |->
               IF held[slot] = Undefined THEN Current[slot] ELSE held[slot]]
  /\ held' # held
  /\ \E level \in levelsIn :
       /\ \A slot \in Replaced(level) :
            Current[slot] # Undefined /\ held[slot] = Undefined
       /\ factory' = IF "factory" \in Replaced(level) THEN Undefined ELSE factory
       /\ ctx' = IF "ctx" \in Replaced(level) THEN Undefined ELSE ctx
       /\ feature' = IF "feature" \in Replaced(level) THEN Undefined ELSE feature
       /\ err' = IF "err" \in Replaced(level) THEN Undefined ELSE err
  /\ UNCHANGED <<caught, sinkLog, console, emitCalls, postfixCalls, raised>>

(***************************************************************************)
(* Arguments.                                                              *)
(***************************************************************************)
Kind(errorType) == Obj([errorType |-> Str(errorType)])

KindP(errorType, fn) == Obj([errorType |-> Str(errorType), createMessagePostfix |-> fn])

customHandleEmit == Fn("handleEmit")

\* A second handler.
otherHandleEmit == Fn("otherHandleEmit")

\* Kind lists: omitted, empty, one kind, two kinds in both orders with the
\* suffix builder on either.
KindLists ==
  {Undefined,
   Arr(<<>>),
   Arr(<<Kind("SingleErrorType")>>),
   Arr(<<KindP("ErrorType1", postfixOriginalMessage), Kind("ErrorType2")>>),
   Arr(<<Kind("ErrorType2"), KindP("ErrorType1", postfixAdditionalInfo)>>)}

DeclaredKinds(errorTypes) ==
  IF errorTypes.t = "array"
  THEN {Get(errorTypes.items[i], "errorType").v : i \in DOMAIN errorTypes.items}
  ELSE {}

RequestedKinds ==
  {"ErrorType1", "ErrorType2", "SingleErrorType", "WrongErrorType", "constructor",
   "toString"}

\* The causes of the tests, and the falsy primitives.
Causes ==
  {Undefined, Null, NativeError("OriginalError"), Obj([code |-> Num(500)]),
   Str("string error"), Str(""), Num(0), Bool(FALSE)}

CauseOptions ==
  {Undefined, EmptyObj} \cup {Obj([originalError |-> c]) : c \in Causes}

Metadata == {Undefined, Obj([a |-> Num(1)]), Obj([a |-> Num(2), b |-> Num(2)])}

MetadataOptions ==
  {Undefined, EmptyObj} \cup {Obj([extendedParams |-> m]) : m \in Metadata \ {Undefined}}

PathNames == {"", "Context", "a/b"}

(***************************************************************************)
(* Specifications.  Each varies one group of arguments widely and keeps    *)
(* the others to a few values.                                             *)
(***************************************************************************)

\* Every operation, with the handler omitted, undefined, configured or
\* throwing.
Next ==
  \/ CreateError({Undefined, Arr(<<KindP("ErrorType1", postfixOriginalMessage)>>)},
                 {Undefined, EmptyObj, Obj([handleEmit |-> Undefined]),
                  Obj([handleEmit |-> customHandleEmit]),
                  Obj([handleEmit |-> throwingHandleEmit]),
                  Obj([handleEmit |-> customHandleEmit,
                       extendedParams |-> Obj([a |-> Num(1)])])})
  \/ CreateErrorContext({"Context"}, {Undefined, Obj([b |-> Num(2)])})
  \/ Subcontext({"Subcontext"}, {Undefined})
  \/ Feature({"Feature"}, {Undefined})
  \/ CreateNewErrorObject({"ErrorType1", "WrongErrorType"}, {"ErrorMessage"},
                          {Undefined, Obj([originalError |-> NativeError("OriginalError")])})
  \/ Throw
  \/ Emit({Undefined, Obj([c |-> Num(3)])})

Spec == Init /\ [][Next]_vars

\* Kinds and causes.
NextKinds ==
  \/ CreateError(KindLists, {Undefined})
  \/ CreateErrorContext({"Context"}, {Undefined})
  \/ Subcontext({"Subcontext"}, {Undefined})
  \/ Feature({"Feature"}, {Undefined})
  \/ CreateNewErrorObject(RequestedKinds, {"ErrorMessage"}, CauseOptions)
  \/ Throw
  \/ Emit({Undefined})

SpecKinds == Init /\ [][NextKinds]_vars

\* Names and messages.
NextPath ==
  \/ CreateError({Arr(<<KindP("ErrorType1", postfixOriginalMessage), Kind("ErrorType2")>>)},
                 {Undefined})
  \/ CreateErrorContext(PathNames, {Undefined})
  \/ Subcontext(PathNames, {Undefined})
  \/ Feature(PathNames, {Undefined})
  \/ CreateNewErrorObject({"ErrorType1", "WrongErrorType"}, {"", "ErrorMessage"},
                          {Undefined, Obj([originalError |-> NativeError("OriginalError")])})
  \/ Throw
  \/ Emit({Undefined})

SpecPath == Init /\ [][NextPath]_vars

\* Metadata at every layer.
NextMeta ==
  \/ CreateError({Arr(<<Kind("ErrorType1")>>)},
                 {Undefined} \cup
                 {Obj([handleEmit |-> customHandleEmit, extendedParams |-> m]) :
                    m \in Metadata})
  \/ CreateErrorContext({"Context"}, Metadata)
  \/ Subcontext({"Subcontext"}, Metadata)
  \/ Feature({"Feature"}, Metadata)
  \/ CreateNewErrorObject({"ErrorType1"}, {"ErrorMessage"}, MetadataOptions)
  \/ Emit({Undefined, Obj([b |-> Num(1)])})

SpecMeta == Init /\ [][NextMeta]_vars

\* Two factories, or two errors of one factory, and emits on both.
NextTwo ==
  \/ CreateError({Arr(<<Kind("ErrorType1")>>), Arr(<<Kind("ErrorType2")>>)},
                 {Obj([handleEmit |-> Undefined]),
                  Obj([handleEmit |-> customHandleEmit,
                       extendedParams |-> Obj([a |-> Num(1)])]),
                  Obj([handleEmit |-> otherHandleEmit,
                       extendedParams |-> Obj([b |-> Num(2)])])})
  \/ CreateErrorContext({"Context"}, {Undefined})
  \/ Feature({"Feature"}, {Undefined, Obj([a |-> Num(2)])})
  \/ CreateNewErrorObject({"ErrorType1", "ErrorType2"}, {"ErrorMessage"}, {Undefined})
  \/ Hold({"factory", "err"})
  \/ Emit({Undefined, Obj([c |-> Num(3)])})

SpecTwo == Init /\ [][NextTwo]_vars

\* Two roots of one factory, a node and its children, earlier and later
\* feature handles.
NextTree ==
  \/ CreateError({Arr(<<Kind("ErrorType1")>>)},
                 {Obj([handleEmit |-> customHandleEmit,
                       extendedParams |-> Obj([a |-> Num(1)])])})
  \/ CreateErrorContext({"Context"}, {Obj([r |-> Num(1)])})
  \/ Subcontext({"Sub1"}, {Obj([s |-> Num(1)])})
  \/ Subcontext({"Sub2"}, {Undefined})
  \/ Feature({"Feature"}, {Undefined})
  \/ CreateNewErrorObject({"ErrorType1"}, {"ErrorMessage"}, {Undefined})
  \/ Hold({"feature", "none"})
  \/ Emit({Undefined})

SpecTree == Init /\ [][NextTree]_vars

\* Two root contexts of one factory.
NextRoots ==
  \/ CreateError({Arr(<<Kind("ErrorType1")>>)},
                 {Obj([handleEmit |-> customHandleEmit,
                       extendedParams |-> Obj([a |-> Num(1)])])})
  \/ CreateErrorContext({"Context1"}, {Obj([r |-> Num(1)])})
  \/ CreateErrorContext({"Context2"}, {Undefined})
  \/ Subcontext({"Subcontext"}, {Obj([s |-> Num(1)])})
  \/ Feature({"Feature"}, {Undefined, Obj([f |-> Num(1)])})
  \/ CreateNewErrorObject({"ErrorType1"}, {"ErrorMessage"}, {Undefined})
  \/ Hold({"ctx"})
  \/ Emit({Undefined})

SpecRoots == Init /\ [][NextRoots]_vars

\* The same calls made twice, under one factory or two, with other calls
\* and emits in between.
NextAgain ==
  \/ CreateError({Arr(<<KindP("ErrorType1", postfixOriginalMessage)>>)},
                 {Undefined,
                  Obj([handleEmit |-> customHandleEmit,
                       extendedParams |-> Obj([a |-> Num(1)])])})
  \/ CreateErrorContext({"Context"}, {Undefined})
  \/ Subcontext({"Subcontext"}, {Undefined})
  \/ Feature({"Feature"}, {Undefined})
  \/ CreateNewErrorObject({"ErrorType1"}, {"ErrorMessage"},
                          {Undefined, Obj([originalError |-> NativeError("OriginalError")])})
  \/ Hold({"factory", "err"})
  \/ Emit({Undefined})

SpecAgain == Init /\ [][NextAgain]_vars

\* The calls of the README: the caught error passed as the third argument,
\* and metadata passed under an extendedParams key.
ServerError == NativeError("Server upload avatar failed")

Wrapped(m) == Obj([extendedParams |-> m])

NextReadme ==
  \/ CreateError({Arr(<<KindP("FrontendLogicError", postfixOriginalMessage),
                        Kind("BackendLogicError")>>)},
                 {Obj([handleEmit |-> customHandleEmit,
                       extendedParams |-> Obj([isSSR |-> Bool(TRUE)])])})
  \/ CreateErrorContext({"Context"}, {Undefined, Obj([subdomain |-> Str("Payment")])})
  \/ Subcontext({"Subcontext"}, {Undefined})
  \/ Feature({"Feature"}, {Undefined, Obj([location |-> Str("USA")])})
  \/ CreateNewErrorObject({"FrontendLogicError", "BackendLogicError"},
                          {"Failed upload avatar"},
                          {Undefined, ServerError, Obj([originalError |-> ServerError]),
                           Wrapped(Obj([a |-> Num(1)]))})
  \/ Throw
  \/ Emit({Undefined, Obj([logLevel |-> Str("fatal")]),
           Wrapped(Obj([logLevel |-> Str("fatal")]))})

SpecReadme == Init /\ [][NextReadme]_vars

\* One feature handle invoked twice; the errors thrown or not, their emit
\* called as a method or detached.
NextHandle ==
  \/ CreateError({Arr(<<Kind("ErrorType1")>>)},
                 {Obj([handleEmit |-> customHandleEmit,
                       extendedParams |-> Obj([a |-> Num(1)])])})
  \/ CreateErrorContext({"Context"}, {Undefined})
  \/ Feature({"Feature"}, {Obj([b |-> Num(1)])})
  \/ CreateNewErrorObject({"ErrorType1"}, {"Message1", "Message2"},
                          {Undefined, Obj([extendedParams |-> Obj([a |-> Num(2)])])})
  \/ Hold({"err"})
  \/ Throw
  \/ Emit({Undefined, Obj([c |-> Num(3)])})
  \/ EmitDetached({Undefined})

SpecHandle == Init /\ [][NextHandle]_vars

\* Kind lists that declare one errorType twice.
DuplicateKindLists ==
  {Arr(<<KindP("ErrorType1", postfixOriginalMessage), Kind("ErrorType1")>>),
   Arr(<<Kind("ErrorType1"), KindP("ErrorType1", postfixAdditionalInfo)>>),
   Arr(<<KindP("ErrorType1", postfixOriginalMessage), Kind("ErrorType2"),
         KindP("ErrorType1", postfixAdditionalInfo)>>)}

NextDuplicates ==
  \/ CreateError(DuplicateKindLists, {Undefined})
  \/ CreateErrorContext({"Context1", "Context2"}, {Undefined})
  \/ Feature({"Feature"}, {Undefined})
  \/ CreateNewErrorObject({"ErrorType1"}, {"ErrorMessage"},
                          {Undefined, Obj([originalError |-> Str("")]),
                           Obj([originalError |-> NativeError("OriginalError")])})
  \/ Hold({"ctx"})
  \/ Emit({Undefined})

SpecDuplicates == Init /\ [][NextDuplicates]_vars

\* One factory whose handler changes the mapping it is given or not, one
\* feature, two errors of it, emits with and without metadata.
NextSink ==
  \/ CreateError({Arr(<<Kind("ErrorType1")>>)},
                 {Obj([handleEmit |-> customHandleEmit,
                       extendedParams |-> Obj([a |-> Num(1)])]),
                  Obj([handleEmit |-> mutatingHandleEmit,
                       extendedParams |-> Obj([a |-> Num(1)])])})
  \/ CreateErrorContext({"Context"}, {Undefined})
  \/ Feature({"Feature"}, {Obj([b |-> Num(2)])})
  \/ CreateNewErrorObject({"ErrorType1"}, {"Message1", "Message2"},
                          {Obj([originalError |-> NativeError("OriginalError")]),
                           Obj([extendedParams |-> Obj([a |-> Num(2), d |-> Num(4)])])})
  \/ Hold({"err"})
  \/ Throw
  \/ Emit({Undefined, Obj([c |-> Num(3)])})

SpecSink == Init /\ [][NextSink]_vars

\* One factory, a root context before and one after the caller changed the
\* array of kinds: a kind removed and another added, or the suffix builder
\* of a kind replaced.
NextKindsWritten ==
  \/ CreateError({Arr(<<KindP("ErrorType1", postfixOriginalMessage)>>)}, {Undefined})
  \/ CreateErrorContext({"Context1", "Context2"}, {Undefined})
  \/ Feature({"Feature"}, {Undefined})
  \/ CreateNewErrorObject({"ErrorType1", "ErrorType2"}, {"ErrorMessage"},
                          {Undefined, Obj([originalError |-> NativeError("OriginalError")])})
  \/ Hold({"ctx", "err"})
  \/ CallerWritesKinds({Arr(<<Kind("ErrorType2")>>),
                        Arr(<<KindP("ErrorType1", postfixAdditionalInfo)>>)})
  \/ Emit({Undefined})

SpecKindsWritten == Init /\ [][NextKindsWritten]_vars

\* One factory with metadata, a root context before and one after the
\* caller changed the mapping it passed to createError, errors with and
\* without metadata of their own, which the caller changes too.
NextMetadataWritten ==
  \/ CreateError({Arr(<<Kind("ErrorType1")>>)},
                 {Obj([handleEmit |-> customHandleEmit,
                       extendedParams |-> Obj([a |-> Num(1)])])})
  \/ CreateErrorContext({"Context"}, {Undefined})
  \/ Feature({"Feature"}, {Obj([b |-> Num(2)])})
  \/ CreateNewErrorObject({"ErrorType1"}, {"ErrorMessage"},
                          {Undefined, Obj([extendedParams |-> Obj([d |-> Num(4)])])})
  \/ Hold({"ctx", "err"})
  \/ Throw
  \/ CallerWritesOptionsMetadata({Obj([a |-> Num(9), z |-> Num(9)])})
  \/ CallerWritesInvocationMetadata({Obj([d |-> Num(9), z |-> Num(9)])})
  \/ Emit({Undefined, Obj([c |-> Num(3)])})

SpecMetadataWritten == Init /\ [][NextMetadataWritten]_vars

(***************************************************************************)
(* What the caller passed on the way to an error value e, read from the    *)
(* history e.calls = <<createError, context, subcontext*, feature, error>>.*)
(***************************************************************************)
PassedKinds(e) == e.calls[1].errorTypes

PassedRootName(e) == e.calls[2].name

PassedSubNames(e) == [i \in 1..(Len(e.calls) - 4) |-> e.calls[i + 2].name]

PassedFeatureName(e) == e.calls[Len(e.calls) - 1].name

PassedCall(e) == e.calls[Len(e.calls)]

PassedCause(e) == OptGet(PassedCall(e).options, "originalError")

\* r + "/" + s1 + ... + "/" + sn
RECURSIVE JoinedPath(_, _)
JoinedPath(r, subs) ==
  IF subs = <<>> THEN r
  ELSE JoinedPath(r, SubSeq(subs, 1, Len(subs) - 1)) \o "/" \o subs[Len(subs)]

\* path + "/" + feature + ": " + message, from what was passed.
PlainMessage(e) ==
  JoinedPath(PassedRootName(e), PassedSubNames(e)) \o "/" \o PassedFeatureName(e)
    \o ": " \o PassedCall(e).message

\* The suffix builders the kind list declares for kind k.
BuildersOf(errorTypes, k) ==
  IF errorTypes.t # "array" THEN {}
  ELSE {Get(errorTypes.items[i], "createMessagePostfix") :
          i \in {j \in DOMAIN errorTypes.items :
                   /\ Get(errorTypes.items[j], "errorType") = Str(k)
                   /\ Get(errorTypes.items[j], "createMessagePostfix") # Undefined}}

\* The metadata layers behind one sink call, lowest precedence first.
PassedLayers(entry) ==
  LET c == entry.error.calls
  IN <<OptGet(c[1].options, "extendedParams")>>
       \o [i \in 1..(Len(c) - 2) |-> c[i + 1].extendedParams]
       \o <<OptGet(c[Len(c)].options, "extendedParams"), entry.emitArg>>

LayerKeys(layer) == IF layer.t = "object" THEN DOMAIN layer.props ELSE {}

(***************************************************************************)
(* Claims.                                                                 *)
(***************************************************************************)

\* C1: with the kind list omitted or empty, invoking a feature handle with
\* any kind never raises and returns an error named "UnknownError".
C1_NoKindsGivesUnknownError ==
  /\ (factory # Undefined /\ DeclaredKinds(factory.errorTypes) = {}) => ~raised
  /\ (err # Undefined /\ DeclaredKinds(PassedKinds(err)) = {})
       => Get(err, "name") = Str("UnknownError")

C1_Witness ==
  /\ err # Undefined
  /\ PassedKinds(err) = Arr(<<>>)
  /\ PassedCall(err).errorType = "constructor"
  /\ Len(PassedSubNames(err)) = 2

\* C2: with a non-empty kind list, a requested kind that is not declared
\* (a built-in property name included) never raises and gives an error
\* named "UnknownError" whose message is path/feature: message.
C2_UndeclaredKindGivesUnknownError ==
  /\ (factory # Undefined /\ DeclaredKinds(factory.errorTypes) # {}) => ~raised
  /\ (/\ err # Undefined
      /\ DeclaredKinds(PassedKinds(err)) # {}
      /\ PassedCall(err).errorType \notin DeclaredKinds(PassedKinds(err)))
       => /\ Get(err, "name") = Str("UnknownError")
          /\ Get(err, "message") = Str(PlainMessage(err))

C2_Witness ==
  /\ err # Undefined
  /\ DeclaredKinds(PassedKinds(err)) = {"ErrorType1", "ErrorType2"}
  /\ PassedCall(err).errorType = "toString"
  /\ PassedCause(err) = NativeError("OriginalError")

\* C3: an error constructed with a declared kind K is named K, wherever K
\* stands in the kind list.
C3_DeclaredKindGivesItsName ==
  (err # Undefined /\ PassedCall(err).errorType \in DeclaredKinds(PassedKinds(err)))
    => Get(err, "name") = Str(PassedCall(err).errorType)

C3_Witness ==
  /\ err # Undefined
  /\ PassedKinds(err).t = "array"
  /\ Len(PassedKinds(err).items) = 2
  /\ Get(PassedKinds(err).items[2], "errorType") = Str(PassedCall(err).errorType)
  /\ Get(err, "name") = Str("ErrorType1")

C5_NoSuffixWithoutCauseOrBuilder ==
  err # Undefined =>
    /\ (\/ PassedCause(err) \in {Undefined, Null}
        \/ BuildersOf(PassedKinds(err), PassedCall(err).errorType) = {})
         => Get(err, "message") = Str(PlainMessage(err))
    /\ PassedCause(err) = Null => Get(err, "originalError") = Null

C5_Witness ==
  /\ err # Undefined
  /\ PassedCause(err) = Null
  /\ BuildersOf(PassedKinds(err), PassedCall(err).errorType) = {postfixOriginalMessage}
  /\ Get(err, "originalError") = Null

\* C6: for every supplied cause that is neither undefined nor null (the
\* empty string, 0 and false included) and every kind that declares
\* createMessagePostfix, the message is path/feature: message followed by
\* createMessagePostfix(cause).
C6_SuffixForEverySuppliedCause ==
  (/\ err # Undefined
   /\ PassedCause(err) \notin {Undefined, Null}
   /\ BuildersOf(PassedKinds(err), PassedCall(err).errorType) # {})
    => \E b \in BuildersOf(PassedKinds(err), PassedCall(err).errorType) :
         Get(err, "message") = Str(PlainMessage(err) \o applyPostfix(b, PassedCause(err)))

\* C7: the metadata a sink call receives has exactly the keys of the layers
\* factory, root, subcontexts in order, feature, construction and emit,
\* each key with the value of the last layer that has it.
C7_EmitMergesLayersInOrder ==
  \A n \in DOMAIN sinkLog :
    LET layers == PassedLayers(sinkLog[n])
        got == sinkLog[n].extendedParams
    IN /\ got.t = "object"
       /\ DOMAIN got.props = UNION {LayerKeys(layers[i]) : i \in DOMAIN layers}
       /\ \A k \in DOMAIN got.props :
            \E i \in DOMAIN layers :
              /\ k \in LayerKeys(layers[i])
              /\ \A j \in DOMAIN layers : j > i => k \notin LayerKeys(layers[j])
              /\ got.props[k] = layers[i].props[k]

C7_Witness ==
  \E n \in DOMAIN sinkLog :
    /\ Len(PassedSubNames(sinkLog[n].error)) = 2
    /\ PassedLayers(sinkLog[n]) =
         <<Obj([a |-> Num(2), b |-> Num(2)]), Obj([a |-> Num(1)]), Undefined,
           Obj([a |-> Num(2), b |-> Num(2)]), Obj([a |-> Num(1)]), Undefined,
           Obj([b |-> Num(1)])>>
    /\ sinkLog[n].extendedParams = Obj([a |-> Num(1), b |-> Num(1)])

\* C8: the error's extendedParams is what was passed at construction:
\* undefined when nothing was passed, else that mapping alone, without the
\* metadata of the factory, the contexts or the feature; nothing reaches
\* the sink before emit.
C8_ErrorKeepsConstructionParamsOnly ==
  /\ err # Undefined
       => Get(err, "extendedParams") = OptGet(PassedCall(err).options, "extendedParams")
  /\ emitCalls = 0 => sinkLog = <<>>

C8_Witness ==
  /\ err # Undefined
  /\ Get(err, "extendedParams") = Obj([a |-> Num(1)])
  /\ Get(err, "emit").featureContextExtendedParams = Obj([a |-> Num(2), b |-> Num(2)])

\* C9: rootContext is the root name, contextsChunk the root name followed
\* by the subcontext names joined by "/", feature the feature name and
\* originalError the cause that was passed (undefined when none).
C9_ErrorFieldsAreWhatWasPassed ==
  err # Undefined =>
    /\ Get(err, "rootContext") = Str(PassedRootName(err))
    /\ Get(err, "contextsChunk") = Str(JoinedPath(PassedRootName(err), PassedSubNames(err)))
    /\ Get(err, "feature") = Str(PassedFeatureName(err))
    /\ Get(err, "originalError") = PassedCause(err)

C9_Witness ==
  /\ err # Undefined
  /\ PassedSubNames(err) = <<"", "a/b">>
  /\ Get(err, "rootContext") = Str("Context")
  /\ Get(err, "contextsChunk") = Str("Context//a/b")
  /\ Get(err, "originalError") = NativeError("OriginalError")

\* C10: constructing and throwing never call the sink or, before
\* construction, a suffix builder; the number of sink calls equals the
\* number of emit calls made.
C10_SinkCallsEqualEmitCalls ==
  /\ Len(sinkLog) = emitCalls
  /\ err = Undefined => postfixCalls = 0

\* C11: N emit calls give exactly N sink calls, on one error or on several
\* in any interleaving, and two emit calls on the same error with equal
\* emit-time metadata deliver equal merged metadata.
C11_EachEmitIsOneSinkCall ==
  /\ emitCalls = Len(sinkLog)
  /\ \A i, j \in DOMAIN sinkLog :
       (sinkLog[i].error = sinkLog[j].error /\ sinkLog[i].emitArg = sinkLog[j].emitArg)
         => sinkLog[i].extendedParams = sinkLog[j].extendedParams

\* C12: an emit call never raises to its caller, whatever the configured
\* handler does and whatever metadata is passed.
C12_EmitNeverRaises ==
  [][emitCalls' = emitCalls + 1 => raised' = raised]_vars

\* The handleEmit the caller passed to the createError behind e.
PassedHandler(e) == OptGet(e.calls[1].options, "handleEmit")

\* C13: when createError got no handler (options omitted, no handleEmit
\* key, or handleEmit undefined), every emit call calls the default sink
\* once with the error, which writes it with console.error, and does not
\* raise.
C13_DefaultSinkWhenNoHandler ==
  (err # Undefined /\ PassedHandler(err) = Undefined)
    => /\ Len(console) = emitCalls
       /\ Len(sinkLog) = emitCalls
       /\ \A n \in DOMAIN sinkLog :
            sinkLog[n].handleEmit = defaultHandleEmit /\ console[n] = sinkLog[n].error
       /\ ~raised

\* The layers merged left to right, a later layer overriding an earlier one.
RECURSIVE MergedLayers(_)
MergedLayers(layers) ==
  IF layers = <<>> THEN EmptyObj
  ELSE Spread2(MergedLayers(SubSeq(layers, 1, Len(layers) - 1)), layers[Len(layers)])

\* C14: when createError got a handleEmit function, every emit call on an
\* error of that factory calls that function once with the error and the
\* merged metadata, and console.error is never called.
C14_ConfiguredHandlerGetsEveryEmit ==
  (\A e \in Handles(err, held.err) : PassedHandler(e).t = "function")
    => /\ Len(sinkLog) = emitCalls
       /\ console = <<>>
       /\ \A n \in DOMAIN sinkLog :
            /\ sinkLog[n].error \in Handles(err, held.err)
            /\ sinkLog[n].handleEmit = PassedHandler(sinkLog[n].error)
            /\ sinkLog[n].extendedParams = MergedLayers(PassedLayers(sinkLog[n]))

C14_Witness ==
  /\ Len(sinkLog) = 2
  /\ sinkLog[1].error # sinkLog[2].error
  /\ sinkLog[1].error.calls[1] = sinkLog[2].error.calls[1]
  /\ sinkLog[1].handleEmit = customHandleEmit
  /\ sinkLog[2].handleEmit = customHandleEmit
  /\ sinkLog[2].extendedParams = Obj([a |-> Num(2), c |-> Num(3)])

\* The sink of the factory behind e: the function passed to its createError,
\* else the default one.
SinkOf(e) == IF PassedHandler(e).t = "function" THEN PassedHandler(e) ELSE defaultHandleEmit

\* The name the kind list passed to the createError behind e gives the
\* requested kind.
ResolvedName(e) ==
  IF PassedCall(e).errorType \in DeclaredKinds(PassedKinds(e))
  THEN PassedCall(e).errorType ELSE "UnknownError"

\* C15: with two factories in use, a sink call for an error is a call of the
\* sink of that error's own factory, every key and value delivered comes
\* from a layer passed on that error's own chain, and the error's name is
\* resolved against the kinds of its own factory.
C15_FactoriesAreIsolated ==
  /\ \A n \in DOMAIN sinkLog :
       LET layers == PassedLayers(sinkLog[n])
           got == sinkLog[n].extendedParams
       IN /\ sinkLog[n].handleEmit = SinkOf(sinkLog[n].error)
          /\ \A k \in DOMAIN got.props :
               \E i \in DOMAIN layers :
                 k \in LayerKeys(layers[i]) /\ got.props[k] = layers[i].props[k]
  /\ \A e \in Handles(err, held.err) : Get(e, "name") = Str(ResolvedName(e))

C15_Witness ==
  /\ err # Undefined
  /\ held.err # Undefined
  /\ PassedKinds(held.err) = Arr(<<Kind("ErrorType1")>>)
  /\ PassedKinds(err) = Arr(<<Kind("ErrorType2")>>)
  /\ PassedCall(held.err).errorType = "ErrorType2"
  /\ PassedCall(err).errorType = "ErrorType2"
  /\ Get(held.err, "name") = Str("UnknownError")
  /\ Get(err, "name") = Str("ErrorType2")
  /\ Len(sinkLog) = 2
  /\ sinkLog[1].handleEmit = otherHandleEmit
  /\ sinkLog[1].error = err
  /\ sinkLog[1].extendedParams = Obj([b |-> Num(2)])
  /\ sinkLog[2].handleEmit = customHandleEmit
  /\ sinkLog[2].error = held.err
  /\ sinkLog[2].extendedParams = Obj([a |-> Num(1)])

\* The layers passed to the root, the subcontexts and the feature behind e.
PassedTreeLayers(e) == [i \in 1..(Len(e.calls) - 2) |-> e.calls[i + 1].extendedParams]

\* C16: for two errors of one factory that descend from roots of different
\* names, each error's rootContext is the name of its own root, the two
\* errors have different classes even for the same kind, and a sink call
\* for one delivers no key with a value that only the root, a subcontext or
\* the feature of the other contributed.
C16_RootsOfOneFactoryShareNothing ==
  \A e1, e2 \in Handles(err, held.err) :
    (e1.calls[1] = e2.calls[1] /\ PassedRootName(e1) # PassedRootName(e2))
      => /\ Get(e1, "rootContext") = Str(PassedRootName(e1))
         /\ e1.class # e2.class
         /\ \A n \in DOMAIN sinkLog :
              sinkLog[n].error = e1 =>
                \A i \in DOMAIN PassedTreeLayers(e2) :
                  \A k \in LayerKeys(PassedTreeLayers(e2)[i]) :
                    (/\ k \in DOMAIN sinkLog[n].extendedParams.props
                     /\ sinkLog[n].extendedParams.props[k] = PassedTreeLayers(e2)[i].props[k])
                      => \E j \in DOMAIN PassedLayers(sinkLog[n]) :
                           /\ k \in LayerKeys(PassedLayers(sinkLog[n])[j])
                           /\ PassedLayers(sinkLog[n])[j].props[k]
                                = sinkLog[n].extendedParams.props[k]

C16_Witness ==
  /\ err # Undefined
  /\ held.err # Undefined
  /\ PassedRootName(held.err) = "Context1"
  /\ PassedRootName(err) = "Context2"
  /\ PassedCall(held.err).errorType = "ErrorType1"
  /\ PassedCall(err).errorType = "ErrorType1"
  /\ PassedTreeLayers(held.err) = <<Obj([r |-> Num(1)]), Obj([s |-> Num(1)]), Obj([f |-> Num(1)])>>
  /\ PassedTreeLayers(err) = <<Undefined, Undefined>>
  /\ Len(sinkLog) = 2
  /\ sinkLog[1].error = held.err
  /\ sinkLog[2].error = err
  /\ sinkLog[2].extendedParams = Obj([a |-> Num(1)])

\* The path and the metadata layers of a history <<createError, context,
\* subcontext*>>, optionally followed by a feature call.
HistoryPath(calls) ==
  LET n == Cardinality({i \in DOMAIN calls : calls[i].op = "subcontext"})
  IN JoinedPath(calls[2].name, [i \in 1..n |-> calls[i + 2].name])

HistoryLayers(calls) ==
  LET n == Cardinality({i \in DOMAIN calls : calls[i].op \in {"context", "subcontext", "feature"}})
  IN <<OptGet(calls[1].options, "extendedParams")>>
       \o [i \in 1..n |-> calls[i + 1].extendedParams]

\* C17: whatever subcontexts and features were created since, every node
\* and every feature handle the caller holds has the path and the metadata
\* of its own chain of calls alone, every error built from a feature handle
\* has that handle's path, and every sink call delivers the metadata of the
\* error's own chain: a child or a sibling adds nothing to them.
C17_CreationLeavesOtherHandlesAlone ==
  /\ \A node \in Handles(ctx, held.ctx) :
       /\ node._contextName = HistoryPath(node.calls)
       /\ node.contextExtendedParams = MergedLayers(HistoryLayers(node.calls))
  /\ \A f \in Handles(feature, held.feature) :
       /\ f.contextName = HistoryPath(f.calls)
       /\ f.featureContextExtendedParams = MergedLayers(HistoryLayers(f.calls))
  /\ \A e \in Handles(err, held.err) :
       /\ Get(e, "contextsChunk") = Str(HistoryPath(e.calls))
       /\ Get(e, "message") = Str(PlainMessage(e))
  /\ \A n \in DOMAIN sinkLog :
       sinkLog[n].extendedParams = MergedLayers(PassedLayers(sinkLog[n]))

\* The node Context is held; an error of its child Context/Sub1 and an
\* error of the sibling Context/Sub2, created later, were both emitted.
C17_Witness ==
  /\ held.ctx # Undefined
  /\ HistoryPath(held.ctx.calls) = "Context"
  /\ held.err # Undefined
  /\ Get(held.err, "contextsChunk") = Str("Context/Sub1")
  /\ err # Undefined
  /\ Get(err, "contextsChunk") = Str("Context/Sub2")
  /\ Len(sinkLog) = 2
  /\ sinkLog[1].error = held.err
  /\ sinkLog[1].extendedParams = Obj([a |-> Num(1), r |-> Num(1), s |-> Num(1)])
  /\ sinkLog[2].error = err
  /\ sinkLog[2].extendedParams = Obj([a |-> Num(1), r |-> Num(1)])

\* C18: isConwayError is false for the causes passed in (undefined, null,
\* strings, numbers, booleans, plain objects and native errors) and true
\* for every value a feature handle returned, of a declared kind or
\* UnknownError, thrown and caught or not.
C18_GuardTellsLibraryErrors ==
  /\ err # Undefined
       => /\ isConwayError(err)
          /\ ~isConwayError(Get(err, "originalError"))
  /\ caught # Undefined => isConwayError(caught)

C18_Witness ==
  /\ caught # Undefined
  /\ Get(caught, "name") = Str("UnknownError")
  /\ Get(caught, "originalError") = NativeError("OriginalError")
  /\ isConwayError(caught)
  /\ TypeOf(Get(caught, "originalError")) = "object"
  /\ ~isConwayError(Get(caught, "originalError"))

\* C19: no operation raises because of a name, and names are taken as they
\* are: the empty root with the empty subcontext gives contextsChunk "/"
\* and, with the empty feature and no cause, the message "//: " + message;
\* a root "a/b" with the subcontext "a/b" gives "a/b/a/b" and the empty
\* root with the subcontexts "a/b" and "" gives "/a/b/"; rootContext and
\* feature are the names passed.
C19_NamesAreTakenVerbatim ==
  /\ ~raised
  /\ err # Undefined =>
       /\ Get(err, "rootContext") = Str(PassedRootName(err))
       /\ Get(err, "feature") = Str(PassedFeatureName(err))
       /\ (PassedRootName(err) = "" /\ PassedSubNames(err) = <<"">>)
            => /\ Get(err, "contextsChunk") = Str("/")
               /\ (PassedFeatureName(err) = "" /\ PassedCause(err) = Undefined)
                    => Get(err, "message") = Str("//: " \o PassedCall(err).message)
       /\ (PassedRootName(err) = "a/b" /\ PassedSubNames(err) = <<"a/b">>)
            => Get(err, "contextsChunk") = Str("a/b/a/b")
       /\ (PassedRootName(err) = "" /\ PassedSubNames(err) = <<"a/b", "">>)
            => Get(err, "contextsChunk") = Str("/a/b/")

C19_Witness ==
  /\ err # Undefined
  /\ PassedRootName(err) = ""
  /\ PassedSubNames(err) = <<"">>
  /\ PassedFeatureName(err) = ""
  /\ Get(err, "contextsChunk") = Str("/")
  /\ Get(err, "message") = Str("//: ErrorMessage")
  /\ Get(err, "rootContext") = Str("")

\* C20: two errors built with the same kind declarations, root name,
\* subcontext names, feature name, kind, message and cause have equal
\* name, message, rootContext, contextsChunk and feature, whatever
\* handler and metadata were passed and whatever was created or emitted
\* before or between them.
C20_SameInputsGiveEqualErrors ==
  \A e1, e2 \in Handles(err, held.err) :
    (/\ PassedKinds(e1) = PassedKinds(e2)
     /\ PassedRootName(e1) = PassedRootName(e2)
     /\ PassedSubNames(e1) = PassedSubNames(e2)
     /\ PassedFeatureName(e1) = PassedFeatureName(e2)
     /\ PassedCall(e1).errorType = PassedCall(e2).errorType
     /\ PassedCall(e1).message = PassedCall(e2).message
     /\ PassedCause(e1) = PassedCause(e2))
      => \A k \in {"name", "message", "rootContext", "contextsChunk", "feature"} :
           Get(e1, k) = Get(e2, k)

\* The second error was built under another factory and other metadata,
\* after the first was emitted.
C20_Witness ==
  /\ err # Undefined
  /\ held.err # Undefined
  /\ PassedHandler(held.err) = customHandleEmit
  /\ PassedHandler(err) = Undefined
  /\ PassedSubNames(err) = <<"Subcontext">>
  /\ PassedSubNames(held.err) = <<"Subcontext">>
  /\ HistoryLayers(err.calls) # HistoryLayers(held.err.calls)
  /\ PassedCall(err) = PassedCall(held.err)
  /\ PassedCause(err) = NativeError("OriginalError")
  /\ Get(err, "message") = Str("Context/Subcontext/Feature: ErrorMessage >>> OriginalError")
  /\ Get(held.err, "message") = Get(err, "message")
  /\ Len(sinkLog) = 1
  /\ sinkLog[1].error = held.err

\* C21: when the third argument of a feature handle is the caught error
\* itself, featureError(kind, message, err), and the kind declares
\* createMessagePostfix, the message is path/feature: message followed by
\* createMessagePostfix(err).
C21_CauseAsThirdArgumentGetsSuffix ==
  (/\ err # Undefined
   /\ PassedCall(err).options = ServerError
   /\ BuildersOf(PassedKinds(err), PassedCall(err).errorType) # {})
    => \E b \in BuildersOf(PassedKinds(err), PassedCall(err).errorType) :
         Get(err, "message")
           = Str(PlainMessage(err) \o applyPostfix(b, PassedCall(err).options))

\* C22: metadata passed to emit under an extendedParams key reaches the
\* handler with the inner keys as top-level keys of its second argument.
C22_WrappedMetadataIsUnwrapped ==
  \A n \in DOMAIN sinkLog :
    LET inner == Get(sinkLog[n].emitArg, "extendedParams")
    IN \A k \in LayerKeys(inner) :
         /\ k \in DOMAIN sinkLog[n].extendedParams.props
         /\ sinkLog[n].extendedParams.props[k] = inner.props[k]

\* C23: within a factory the class of an error is 1:1 with the pair (kind,
\* root name): two errors have the same class exactly when they resolve to
\* the same kind and descend from roots of the same name, the root builder
\* called twice with that name included.
C23_ClassIsOneToOneWithKindAndRoot ==
  \A e1, e2 \in Handles(err, held.err) :
    e1.calls[1] = e2.calls[1]
      => ((ResolvedName(e1) = ResolvedName(e2) /\ PassedRootName(e1) = PassedRootName(e2))
            <=> e1.class = e2.class)

\* The error value with the given id among those the caller holds.
ErrorWithId(i) == CHOOSE e \in Handles(err, held.err) : e.id = i

\* C27: two errors built from one feature handle are different values with
\* different emit closures, and a sink call made by the emit of one of them
\* delivers that error's own message and the metadata merged with its own
\* construction-time extendedParams.
C27_EachInvocationGivesItsOwnError ==
  /\ (err # Undefined /\ held.err # Undefined)
       => /\ err # held.err
          /\ Get(err, "emit") # Get(held.err, "emit")
  /\ \A n \in DOMAIN sinkLog :
       LET e == ErrorWithId(sinkLog[n].emitOf)
       IN /\ Get(sinkLog[n].error, "message") = Str(PlainMessage(e))
          /\ sinkLog[n].extendedParams
               = MergedLayers(PassedLayers([error |-> e, emitArg |-> sinkLog[n].emitArg]))

C27_Witness ==
  /\ err # Undefined
  /\ held.err # Undefined
  /\ SubSeq(err.calls, 1, Len(err.calls) - 1)
       = SubSeq(held.err.calls, 1, Len(held.err.calls) - 1)
  /\ Get(held.err, "extendedParams") = Obj([a |-> Num(2)])
  /\ Get(err, "extendedParams") = Undefined
  /\ Len(sinkLog) = 2
  /\ sinkLog[1].emitOf = err.id
  /\ Get(sinkLog[1].error, "message") = Str("Context/Feature: Message2")
  /\ sinkLog[1].extendedParams = Obj([a |-> Num(1), b |-> Num(1)])
  /\ sinkLog[2].emitOf = held.err.id
  /\ Get(sinkLog[2].error, "message") = Str("Context/Feature: Message1")
  /\ sinkLog[2].extendedParams = Obj([a |-> Num(2), b |-> Num(1)])

\* C28: the first argument of every sink call is the error value whose emit
\* was called, also when that error was thrown and caught before and when
\* emit was called detached from it.
C28_SinkGetsTheErrorOfTheClosure ==
  \A n \in DOMAIN sinkLog : sinkLog[n].error = ErrorWithId(sinkLog[n].emitOf)

C28_Witness ==
  /\ err # Undefined
  /\ held.err # Undefined
  /\ Len(sinkLog) = 2
  /\ sinkLog[1].detached /\ sinkLog[1].thrown /\ sinkLog[1].error = held.err
  /\ sinkLog[2].detached /\ ~sinkLog[2].thrown /\ sinkLog[2].error = err

\* The last declaration of kind k in a kind list.
LastDeclaration(errorTypes, k) ==
  LET at == {i \in DOMAIN errorTypes.items : Get(errorTypes.items[i], "errorType") = Str(k)}
  IN errorTypes.items[CHOOSE i \in at : \A j \in at : j <= i]

\* C29: when the kind list declares the errorType of an error more than
\* once, the error has that name and its suffix, if any, is that of the
\* last declaration's createMessagePostfix: appended for a cause like a
\* native error, and never appended when the last declaration has no
\* createMessagePostfix; this for every root context of the factory.
C29_LastDeclarationWins ==
  \A e \in Handles(err, held.err) :
    LET k == PassedCall(e).errorType
        at == {i \in DOMAIN PassedKinds(e).items :
                 Get(PassedKinds(e).items[i], "errorType") = Str(k)}
        builder == Get(LastDeclaration(PassedKinds(e), k), "createMessagePostfix")
    IN Cardinality(at) > 1
         => /\ Get(e, "name") = Str(k)
            /\ builder = Undefined => Get(e, "message") = Str(PlainMessage(e))
            /\ builder # Undefined
                 => /\ Get(e, "message") \in
                         {Str(PlainMessage(e)),
                          Str(PlainMessage(e) \o applyPostfix(builder, PassedCause(e)))}
                    /\ PassedCause(e) = NativeError("OriginalError")
                         => Get(e, "message")
                              = Str(PlainMessage(e) \o applyPostfix(builder, PassedCause(e)))

\* Two roots of one factory: an earlier duplicate's builder is not used.
C29_Witness ==
  /\ err # Undefined
  /\ held.err # Undefined
  /\ PassedRootName(err) # PassedRootName(held.err)
  /\ PassedKinds(err) = Arr(<<KindP("ErrorType1", postfixOriginalMessage), Kind("ErrorType2"),
                              KindP("ErrorType1", postfixAdditionalInfo)>>)
  /\ PassedCall(err).errorType = "ErrorType1"
  /\ PassedCause(err) = NativeError("OriginalError")
  /\ Get(err, "message") = Str("Context2/Feature: ErrorMessage some additional info")
  /\ PassedKinds(held.err) = PassedKinds(err)
  /\ PassedCall(held.err) = PassedCall(err)
  /\ Get(held.err, "message") = Str("Context1/Feature: ErrorMessage some additional info")

\* The fields of an error value a caller can read.
ErrorFields == {"name", "message", "rootContext", "contextsChunk", "feature",
                "originalError", "extendedParams"}

\* C26: a call of emit, with or without emit-time metadata, leaves every
\* error value the caller has (the current one, the one kept aside, the
\* one caught) with the name, message, rootContext, contextsChunk, feature,
\* originalError and extendedParams it had before the call, so after any
\* number of calls they are those of the construction.
C26_EmitLeavesErrorUnchanged ==
  [][emitCalls' # emitCalls
       => \A slot \in {"err", "held", "caught"} :
            LET before == CASE slot = "err" -> err
                            [] slot = "held" -> held.err
                            [] OTHER -> caught
                later == CASE slot = "err" -> err'
                           [] slot = "held" -> held'.err
                           [] OTHER -> caught'
            IN /\ (before = Undefined) = (later = Undefined)
               /\ before # Undefined
                    => \A k \in ErrorFields : Get(later, k) = Get(before, k)]_vars

\* Two emits of an error with construction metadata were made with
\* emit-time metadata, which reached the handler, and the error still has
\* its construction metadata.
C26_Witness ==
  /\ emitCalls = 2
  /\ Len(sinkLog) = 2
  /\ err # Undefined
  /\ \A i \in {1, 2} :
       /\ sinkLog[i].emitOf = err.id
       /\ sinkLog[i].emitArg = Obj([c |-> Num(3)])
       /\ Get(sinkLog[i].extendedParams, "c") = Num(3)
  /\ Get(err, "extendedParams") = Obj([a |-> Num(2), d |-> Num(4)])
  /\ caught = err

\* The entries of the sink log before entry i whose handler changed the
\* mapping it was given.
MutatedBefore(i) == {j \in 1..(i - 1) : sinkLog[j].handleEmit = mutatingHandleEmit}

\* C30: once a handler has added, removed and overwritten keys of the
\* mapping it was given, every later emit, of the same or of another
\* error, still delivers the merge of the layers passed on its own chain
\* and of its own argument, and the metadata of the feature handles, of the
\* emit closures and of the errors' extendedParams is as it was passed.
C30_SinkGetsANewMapping ==
  /\ \A i \in DOMAIN sinkLog :
       MutatedBefore(i) # {}
         => sinkLog[i].extendedParams = MergedLayers(PassedLayers(sinkLog[i]))
  /\ MutatedBefore(Len(sinkLog) + 1) # {}
       => /\ \A f \in Handles(feature, held.feature) :
               f.featureContextExtendedParams = MergedLayers(HistoryLayers(f.calls))
          /\ \A e \in Handles(err, held.err) \cup Handles(caught, caught) :
               /\ Get(e, "extendedParams")
                    = OptGet(PassedCall(e).options, "extendedParams")
               /\ Get(e, "emit").featureContextExtendedParams
                    = MergedLayers(HistoryLayers(FeatureCalls(e)))

\* A handler changed the mapping of an emit with metadata, and a later
\* emit of the other error of the feature delivered the layers of its own
\* chain: a from its invocation, b from the feature, no c and no z.
C30_Witness ==
  /\ Len(sinkLog) = 2
  /\ sinkLog[1].handleEmit = mutatingHandleEmit
  /\ sinkLog[1].extendedParams = Obj([a |-> Num(1), b |-> Num(2), c |-> Num(3)])
  /\ sinkLog[2].emitOf # sinkLog[1].emitOf
  /\ sinkLog[2].emitArg = Undefined
  /\ sinkLog[2].extendedParams = Obj([a |-> Num(2), b |-> Num(2), d |-> Num(4)])
  /\ feature # Undefined
  /\ feature.featureContextExtendedParams = Obj([a |-> Num(1), b |-> Num(2)])

\* An error has the name and the suffix that the kinds passed to
\* createError give it: the name of its kind if declared, UnknownError if
\* not, and for a native-error cause the suffix of the declared builder.
ResolvesAsDeclared(e) ==
  LET k == PassedCall(e).errorType
      declared == k \in DeclaredKinds(PassedKinds(e))
      builder == IF declared
                 THEN Get(LastDeclaration(PassedKinds(e), k), "createMessagePostfix")
                 ELSE Undefined
  IN /\ Get(e, "name") = Str(IF declared THEN k ELSE "UnknownError")
     /\ Get(e, "message")
          = Str(PlainMessage(e)
                \o (IF builder # Undefined /\ PassedCause(e) = NativeError("OriginalError")
                    THEN applyPostfix(builder, PassedCause(e)) ELSE ""))

\* C24: whatever the caller does afterwards to the array of kinds it
\* passed to createError, every error of every root context of the factory,
\* made before or after the change, has the name and the suffix that the
\* kinds declared at createError time give it.
C24_KindsAreFixedAtCreateError ==
  \A e \in Handles(err, held.err) : ResolvesAsDeclared(e)

\* The part that holds: the root context made before the change resolves
\* kinds as declared, also for errors built after the change.
C24_RootBeforeChangeKeepsKinds ==
  \A e \in Handles(err, held.err) :
    (held.ctx # Undefined /\ e.class.id = held.ctx.env.call) => ResolvesAsDeclared(e)

\* C25: whatever the caller does afterwards to a mapping it passed as
\* metadata (to createError, to the root builder, to subcontext, to feature
\* or to a feature handle), every emit delivers the merge of the layers as
\* they were passed, and the extendedParams of every error is the mapping
\* as it was passed to the feature handle.
C25_MetadataIsSnapshotted ==
  /\ \A n \in DOMAIN sinkLog :
       sinkLog[n].extendedParams = MergedLayers(PassedLayers(sinkLog[n]))
  /\ \A e \in Handles(err, held.err) \cup Handles(caught, caught) :
       Get(e, "extendedParams") = OptGet(PassedCall(e).options, "extendedParams")

\* The part that holds: an error of the root context made before the
\* caller changed the mapping of createError, whose own mapping the caller
\* did not change, delivers the layers as they were passed.
C25_RootBeforeChangeKeepsMetadata ==
  \A n \in DOMAIN sinkLog :
    LET e == sinkLog[n].error
    IN (/\ held.ctx # Undefined
        /\ e.class.id = held.ctx.env.call
        /\ Get(e, "extendedParams") = OptGet(PassedCall(e).options, "extendedParams"))
         => sinkLog[n].extendedParams = MergedLayers(PassedLayers(sinkLog[n]))

====
